---- MODULE Spec2Model ----
(***************************************************************************)
(* Model of publix_deal_scraper.py: the text classifier, the deal          *)
(* extractor, the container locator, the search filter and the result      *)
(* cache with its TTL check.                                                *)
(*                                                                         *)
(* A Python str is a tuple of one-character strings, so that lower(),      *)
(* strip(), split(), the substring test and the regular expressions are    *)
(* computed character by character.                                        *)
(***************************************************************************)
EXTENDS Integers, Sequences, FiniteSets, TLC

VARIABLES
    container,    \* the strings of one container's subtree, in document order
    extracted,    \* <<>>, or <<r>> once extract_deal_info has returned r
    categorized,  \* <<>>, or <<c>> once categorize_deal has been called
    cacheFile,    \* the cache file on disk
    now,          \* time.time(), in seconds
    readCall,     \* <<>>, or <<c>> once read_cache_entry has been called
    lastRun,      \* what the last run of run_scraper did and reported
    writes,       \* per cache key, <<>> or the last write_cache_entry to it
    soup,         \* the nodes of the parsed page, in document order
    found         \* <<>>, or <<r>> once find_deals has returned

textVars == <<container, extracted, categorized>>

cacheVars == <<cacheFile, now, readCall, lastRun, writes>>

pageVars == <<soup, found>>

vars == <<container, extracted, categorized, cacheFile, now, readCall, lastRun, writes,
          soup, found>>

(***************************************************************************)
(* Python values and str methods                                           *)
(***************************************************************************)

\* len(full_text) < 5 of extract_deal_info
MinTextLen == 5

\* A Python value carries its type: t is the type's name and v the value,
\* a tuple of characters for a str, a tuple of values for a list, a function
\* from keys to values for a dict.
None == [t |-> "NoneType"]

PyStr(chars) == [t |-> "str", v |-> chars]

PyBool(b) == [t |-> "bool", v |-> b]

PyInt(n) == [t |-> "int", v |-> n]

PyFloat(x) == [t |-> "float", v |-> x]

PyList(items) == [t |-> "list", v |-> items]

PyDict(members) == [t |-> "dict", v |-> members]

\* bool(x)
Truthy(x) ==
    CASE x.t = "NoneType" -> FALSE
      [] x.t = "bool" -> x.v
      [] x.t \in {"int", "float"} -> x.v # 0
      [] x.t \in {"str", "list"} -> Len(x.v) > 0
      [] x.t = "dict" -> DOMAIN x.v # {}

UpperCase == <<"A","B","C","D","E","F","G","H","I","J","K","L","M",
               "N","O","P","Q","R","S","T","U","V","W","X","Y","Z">>

LowerCase == <<"a","b","c","d","e","f","g","h","i","j","k","l","m",
               "n","o","p","q","r","s","t","u","v","w","x","y","z">>

Digits == {"0","1","2","3","4","5","6","7","8","9"}

\* What \s matches and what str.strip() removes.
Whitespace == {" ", "\n", "\t"}

LowerChar(c) ==
    IF \E i \in 1..Len(UpperCase) : UpperCase[i] = c
    THEN LowerCase[CHOOSE i \in 1..Len(UpperCase) : UpperCase[i] = c]
    ELSE c

\* str.lower()
Lower(s) == [i \in 1..Len(s) |-> LowerChar(s[i])]

\* s[i:].startswith(lit), i counted from 1
StartsAt(s, i, lit) ==
    /\ i >= 1
    /\ i + Len(lit) - 1 <= Len(s)
    /\ \A j \in 1..Len(lit) : s[i + j - 1] = lit[j]

\* lit in s
Contains(s, lit) == \E i \in 1..(Len(s) - Len(lit) + 1) : StartsAt(s, i, lit)

RECURSIVE SkipWhile(_, _, _)
\* The first position at or after i whose character is not in set.
SkipWhile(s, i, set) ==
    IF i <= Len(s) /\ s[i] \in set THEN SkipWhile(s, i + 1, set) ELSE i

RECURSIVE SkipBack(_, _, _)
\* The last position at or before i whose character is not in set (0: none).
SkipBack(s, i, set) ==
    IF i >= 1 /\ s[i] \in set THEN SkipBack(s, i - 1, set) ELSE i

\* s[a-1:b] of Python, positions counted from 1 and b included
Slice(s, a, b) == IF a > b THEN <<>> ELSE SubSeq(s, a, b)

\* str.strip()
Strip(s) == Slice(s, SkipWhile(s, 1, Whitespace), SkipBack(s, Len(s), Whitespace))

RECURSIVE SplitFrom(_, _, _)
SplitFrom(s, start, i) ==
    IF i > Len(s) THEN <<Slice(s, start, Len(s))>>
    ELSE IF s[i] = "\n" THEN <<Slice(s, start, i - 1)>> \o SplitFrom(s, i + 1, i + 1)
    ELSE SplitFrom(s, start, i + 1)

\* str.split("\n")
SplitLines(s) == SplitFrom(s, 1, 1)

RECURSIVE JoinLines(_)
\* "\n".join(parts)
JoinLines(parts) ==
    IF Len(parts) = 0 THEN <<>>
    ELSE IF Len(parts) = 1 THEN parts[1]
    ELSE parts[1] \o <<"\n">> \o JoinLines(Tail(parts))

RECURSIVE SelectNonEmpty(_)
SelectNonEmpty(parts) ==
    IF Len(parts) = 0 THEN <<>>
    ELSE IF Len(parts[1]) = 0 THEN SelectNonEmpty(Tail(parts))
    ELSE <<parts[1]>> \o SelectNonEmpty(Tail(parts))

\* [p.strip() for p in parts if p.strip()]
StrippedNonEmpty(parts) == SelectNonEmpty([i \in 1..Len(parts) |-> Strip(parts[i])])

(***************************************************************************)
(* The regular expressions of the source                                   *)
(***************************************************************************)

\* The position after a match of \$\d+\.\d{2} that starts at i, 0 if none.
PriceEnd(s, i) ==
    LET c == SkipWhile(s, i + 1, Digits)
    IN  IF /\ i <= Len(s)
           /\ s[i] = "$"
           /\ c > i + 1
           /\ c + 2 <= Len(s)
           /\ s[c] = "."
           /\ s[c + 1] \in Digits
           /\ s[c + 2] \in Digits
        THEN c + 3 ELSE 0

RECURSIVE FindPricesFrom(_, _)
FindPricesFrom(s, i) ==
    IF i > Len(s) THEN <<>>
    ELSE IF PriceEnd(s, i) > 0
         THEN <<SubSeq(s, i, PriceEnd(s, i) - 1)>> \o FindPricesFrom(s, PriceEnd(s, i))
         ELSE FindPricesFrom(s, i + 1)

\* re.findall(r"\$\d+\.\d{2}", s)
FindPrices(s) == FindPricesFrom(s, 1)

\* re.search(r"\$\d+\.\d{2}", s) is not None
HasPrice(s) == \E i \in 1..Len(s) : PriceEnd(s, i) > 0

\* buy\s*\d+\s*get\s*\d+ matches at i
BuyGetAt(s, i) ==
    LET b == SkipWhile(s, i + 3, Whitespace)
        c == SkipWhile(s, b, Digits)
        d == SkipWhile(s, c, Whitespace)
        f == SkipWhile(s, d + 3, Whitespace)
        g == SkipWhile(s, f, Digits)
    IN  /\ StartsAt(s, i, <<"b","u","y">>)
        /\ c > b
        /\ StartsAt(s, d, <<"g","e","t">>)
        /\ g > f

\* save\s*up\s*to matches at i
SaveUpToAt(s, i) ==
    LET b == SkipWhile(s, i + 4, Whitespace)
        c == SkipWhile(s, b + 2, Whitespace)
    IN  /\ StartsAt(s, i, <<"s","a","v","e">>)
        /\ StartsAt(s, b, <<"u","p">>)
        /\ StartsAt(s, c, <<"t","o">>)

\* The position of the "$" of a match of save\s*up\s*to\s*\$(\d+\.\d{2}) that
\* starts at i, 0 if none.
SaveUpToAmountAt(s, i) ==
    LET b == SkipWhile(s, i + 4, Whitespace)
        c == SkipWhile(s, b + 2, Whitespace)
        d == SkipWhile(s, c + 2, Whitespace)
    IN  IF SaveUpToAt(s, i) /\ PriceEnd(s, d) > 0 THEN d ELSE 0

\* The position of the "$" of a match of save\s*\$(\d+\.\d{2}) that starts at
\* i, 0 if none.
SaveAmountAt(s, i) ==
    LET d == SkipWhile(s, i + 4, Whitespace)
    IN  IF StartsAt(s, i, <<"s","a","v","e">>) /\ PriceEnd(s, d) > 0 THEN d ELSE 0

(***************************************************************************)
(* Text classifier                                                         *)
(***************************************************************************)

bogo_phrases ==
    << <<"b","u","y"," ","o","n","e"," ","g","e","t"," ","o","n","e">>,
       <<"b","u","y"," ","1"," ","g","e","t"," ","1">>,
       <<"b","1","g","1">>,
       <<"b","u","y"," ","o","n","e",","," ","g","e","t"," ","o","n","e">> >>

detect_bogo(text) ==
    LET text_lower == Lower(text)
    IN  IF \E i \in 1..Len(text_lower) : BuyGetAt(text_lower, i) THEN TRUE
        ELSE IF Contains(text_lower, <<"b","o","g","o">>) THEN TRUE
        ELSE \E p \in 1..Len(bogo_phrases) : Contains(text_lower, bogo_phrases[p])

\* The four deal types.
TypeBOGO == <<"B","O","G","O">>

TypeDiscount == <<"D","i","s","c","o","u","n","t">>

TypePriceDrop == <<"P","r","i","c","e"," ","D","r","o","p">>

TypeDeal == <<"D","e","a","l">>

\* The "save" test taken before the BOGO test.
categorize_deal_SaveFirst(text, prices) ==
    IF Contains(Lower(text), <<"s","a","v","e">>) THEN TypeDiscount
    ELSE IF detect_bogo(text) THEN TypeBOGO
    ELSE IF Len(prices) > 1 THEN TypePriceDrop
    ELSE TypeDeal

categorize_deal(text, prices) ==
    IF detect_bogo(text) THEN TypeBOGO
    ELSE IF \/ Contains(Lower(text), <<"s","a","v","e">>)
            \/ \E i \in 1..Len(text) : SaveUpToAt(Lower(text), i)
         THEN TypeDiscount
    ELSE IF Len(prices) > 1 THEN TypePriceDrop
    ELSE TypeDeal

(***************************************************************************)
(* Deal extractor                                                          *)
(***************************************************************************)

\* container.get_text(separator="\n", strip=True): the container's strings in
\* document order, each stripped, the empty ones dropped, joined by "\n".
get_text(strings) == JoinLines(StrippedNonEmpty(strings))

\* The savings amount of lines 108-115: "$" and group 1 of the first pattern
\* that matches the lowercased text, None when neither does.
extract_savings(full_text) ==
    LET t == Lower(full_text)
        upTo == {i \in 1..Len(t) : SaveUpToAmountAt(t, i) > 0}
        plain == {i \in 1..Len(t) : SaveAmountAt(t, i) > 0}
        Min(S) == CHOOSE i \in S : \A j \in S : i <= j
        Amount(d) == PyStr(SubSeq(t, d, PriceEnd(t, d) - 1))
    IN  IF upTo # {} THEN Amount(SaveUpToAmountAt(t, Min(upTo)))
        ELSE IF plain # {} THEN Amount(SaveAmountAt(t, Min(plain)))
        ELSE None

\* The test of lines 121 and 124: the line the scan of lines 119-126 stops at.
DescribesDeal(line) ==
    LET line_lower == Lower(line)
    IN  \/ Contains(line_lower, <<"b","u","y">>) /\ Contains(line_lower, <<"g","e","t">>)
        \/ Contains(line_lower, <<"s","a","v","e">>)

\* The original reading: a line with both "buy" and "get" comes first
\* wherever it stands, a "save" line only when there is none.
deal_description_BuyGetFirst(lines) ==
    LET BuyGet(l) == /\ Contains(Lower(l), <<"b","u","y">>)
                     /\ Contains(Lower(l), <<"g","e","t">>)
        both == {i \in 1..Len(lines) : BuyGet(lines[i])}
        save == {i \in 1..Len(lines) : Contains(Lower(lines[i]), <<"s","a","v","e">>)}
        First(S) == CHOOSE i \in S : \A j \in S : i <= j
    IN  IF both # {} THEN PyStr(lines[First(both)])
        ELSE IF save # {} THEN PyStr(lines[First(save)])
        ELSE None

\* deal_description of lines 118-126
deal_description_of(lines) ==
    LET hits == {i \in 1..Len(lines) : DescribesDeal(lines[i])}
    IN  IF hits = {} THEN None
        ELSE PyStr(lines[CHOOSE i \in hits : \A j \in hits : i <= j])

\* A container with any price at all counts as a deal.
has_deal_AnyPrice(is_bogo, savings, deal_description, prices) ==
    \/ is_bogo
    \/ Truthy(savings)
    \/ Truthy(deal_description)
    \/ Len(prices) > 0

\* has_deal of line 132
has_deal(is_bogo, savings, deal_description, prices) ==
    \/ is_bogo
    \/ Truthy(savings)
    \/ Truthy(deal_description)
    \/ Len(prices) > 1

\* extract_deal_info(container), the container given by the strings of its
\* subtree in document order.
extract_deal_info(strings) ==
    LET full_text == get_text(strings)
        lines == StrippedNonEmpty(SplitLines(full_text))
        name == IF Len(lines) > 0 THEN lines[1]
                ELSE <<"U","n","k","n","o","w","n"," ","P","r","o","d","u","c","t">>
        prices == FindPrices(full_text)
        current_price == IF Len(prices) > 0 THEN PyStr(prices[1]) ELSE None
        is_bogo == detect_bogo(full_text)
        savings == extract_savings(full_text)
        deal_description == deal_description_of(lines)
        deal_type == categorize_deal(full_text, prices)
    IN  IF Len(full_text) = 0 \/ Len(full_text) < MinTextLen THEN None
        ELSE IF ~has_deal(is_bogo, savings, deal_description, prices) THEN None
        ELSE PyDict([product_name |-> PyStr(name),
                     current_price |-> current_price,
                     savings |-> savings,
                     deal_type |-> PyStr(deal_type),
                     deal_description |-> deal_description,
                     is_bogo |-> PyBool(is_bogo),
                     full_text |-> PyStr(full_text)])

(***************************************************************************)
(* Search filter                                                           *)
(***************************************************************************)

RECURSIVE normalize_from(_, _)
\* The loop of lines 276-287 over candidates, seen being the lowercased items
\* kept so far.
normalize_from(candidates, seen) ==
    IF Len(candidates) = 0 THEN <<>>
    ELSE LET item == Strip(candidates[1])
         IN  IF Len(item) = 0 \/ Lower(item) \in seen
             THEN normalize_from(Tail(candidates), seen)
             ELSE <<item>> \o normalize_from(Tail(candidates), seen \cup {Lower(item)})

\* normalize_search_items(raw_value) for a list of str
normalize_search_items(raw_value) == normalize_from(raw_value, {})

\* The search terms compared as they were typed.
search_lowers_AsTyped(search_items) == search_items

\* search_lowers of line 446
search_lowers(search_items) == [i \in 1..Len(search_items) |-> Lower(search_items[i])]

\* any(term in d["product_name"].lower() for term in search_lowers)
MatchesLive(d, terms) ==
    \E i \in 1..Len(terms) : Contains(Lower(d.v.product_name.v), terms[i])

RECURSIVE matching_live(_, _)
\* matching_deals of lines 528-532
matching_live(all_deals, terms) ==
    IF Len(all_deals) = 0 THEN <<>>
    ELSE IF MatchesLive(all_deals[1], terms)
         THEN <<all_deals[1]>> \o matching_live(Tail(all_deals), terms)
         ELSE matching_live(Tail(all_deals), terms)

\* str(x), for the types a deal's field can have
str(x) ==
    CASE x.t = "str" -> x.v
      [] x.t = "NoneType" -> <<"N","o","n","e">>
      [] x.t = "bool" -> IF x.v THEN <<"T","r","u","e">> ELSE <<"F","a","l","s","e">>

\* d.get(key, default)
DictGet(d, key, default) == IF key \in DOMAIN d.v THEN d.v[key] ELSE default

\* isinstance(d, dict) and any(term in str(d.get("product_name", "")).lower() ...)
MatchesCached(d, terms) ==
    /\ d.t = "dict"
    /\ \E i \in 1..Len(terms) :
           Contains(Lower(str(DictGet(d, "product_name", PyStr(<<>>)))), terms[i])

RECURSIVE matching_cached(_, _)
\* matching_deals of lines 467-475
matching_cached(cached_deals, terms) ==
    IF Len(cached_deals) = 0 THEN <<>>
    ELSE IF MatchesCached(cached_deals[1], terms)
         THEN <<cached_deals[1]>> \o matching_cached(Tail(cached_deals), terms)
         ELSE matching_cached(Tail(cached_deals), terms)

(***************************************************************************)
(* The cache file: JSON                                                    *)
(***************************************************************************)

\* A JSON value carries its kind in j.
JNull == [j |-> "null"]

JTrue == [j |-> "true"]

JFalse == [j |-> "false"]

\* real: written with a fraction or an exponent
JNumber(x, real) == [j |-> "number", v |-> x, real |-> real]

JString(chars) == [j |-> "string", v |-> chars]

JArray(items) == [j |-> "array", v |-> items]

JObject(members) == [j |-> "object", v |-> members]

RECURSIVE json_dump(_)
\* The document json.dump writes for a Python value.
json_dump(x) ==
    CASE x.t = "NoneType" -> JNull
      [] x.t = "bool" -> IF x.v THEN JTrue ELSE JFalse
      [] x.t = "int" -> JNumber(x.v, FALSE)
      [] x.t = "float" -> JNumber(x.v, TRUE)
      [] x.t = "str" -> JString(x.v)
      [] x.t = "list" -> JArray([i \in 1..Len(x.v) |-> json_dump(x.v[i])])
      [] x.t = "dict" -> JObject([k \in DOMAIN x.v |-> json_dump(x.v[k])])

RECURSIVE json_load(_)
\* The Python value json.load reads from a document.
json_load(doc) ==
    CASE doc.j = "null" -> None
      [] doc.j = "true" -> PyBool(TRUE)
      [] doc.j = "false" -> PyBool(FALSE)
      [] doc.j = "number" -> IF doc.real THEN PyFloat(doc.v) ELSE PyInt(doc.v)
      [] doc.j = "string" -> PyStr(doc.v)
      [] doc.j = "array" -> PyList([i \in 1..Len(doc.v) |-> json_load(doc.v[i])])
      [] doc.j = "object" -> PyDict([k \in DOMAIN doc.v |-> json_load(doc.v[k])])

\* The cache file: missing, something json.load rejects, or a JSON document.
NoFile == [f |-> "missing"]

BadFile == [f |-> "invalid"]

JsonFile(doc) == [f |-> "json", doc |-> doc]

EmptyDict == PyDict([k \in {} |-> None])

(***************************************************************************)
(* Result cache                                                            *)
(***************************************************************************)

KeyPrefix == <<"a","l","l","_","d","e","a","l","s",":",":">>

\* build_cache_key(store_number)
build_cache_key(store_number) ==
    KeyPrefix \o (IF Truthy(store_number) THEN store_number.v ELSE <<"A","L","L">>)

\* load_cache_data(cache_path)
load_cache_data(file) ==
    IF file.f = "missing" THEN EmptyDict
    ELSE IF file.f = "invalid" THEN EmptyDict
    ELSE LET data == json_load(file.doc)
         IN  IF data.t = "dict" THEN data ELSE EmptyDict

\* An exception leaving a function.
Raise(exception) == [t |-> "raise", v |-> exception]

\* isinstance(x, (int, float)); a bool is an int
IsNumber(x) == x.t \in {"int", "float", "bool"}

\* The value of x in arithmetic: True is 1 and False is 0.
NumberOf(x) == IF x.t = "bool" THEN (IF x.v THEN 1 ELSE 0) ELSE x.v

\* read_cache_entry(cache_path, key, ttl_seconds) at time clock
read_cache_entry(file, key, ttl_seconds, clock) ==
    LET cache == load_cache_data(file)
        entry == DictGet(cache, key, None)
        timestamp == DictGet(entry, "timestamp", None)
    IN  IF ~Truthy(entry) THEN None
        ELSE IF entry.t # "dict" THEN Raise("AttributeError")
        ELSE IF ~IsNumber(timestamp) THEN None
        ELSE IF clock - NumberOf(timestamp) > ttl_seconds THEN None
        ELSE entry

\* The file written whole with the one entry.
write_cache_entry_Alone(file, key, payload) ==
    JsonFile(json_dump(PyDict([k \in {key} |-> payload])))

\* write_cache_entry(cache_path, key, payload): the file it leaves
write_cache_entry(file, key, payload) ==
    LET cache == load_cache_data(file)
        updated == PyDict([k \in DOMAIN cache.v \cup {key} |->
                              IF k = key THEN payload ELSE cache.v[k]])
    IN  JsonFile(json_dump(updated))

(***************************************************************************)
(* run_scraper                                                             *)
(***************************************************************************)

\* max(60, ...) of line 335
MinTtlSeconds == 60

SecondsPerMinute == 60

\* cache_ttl_seconds of line 335
cache_ttl_seconds(cache_ttl_minutes) ==
    IF cache_ttl_minutes * SecondsPerMinute > MinTtlSeconds
    THEN cache_ttl_minutes * SecondsPerMinute ELSE MinTtlSeconds

\* The cached product list of lines 460-465.
cached_deals_of(cached_entry) ==
    LET all == DictGet(cached_entry, "all_deals", None)
        old == DictGet(cached_entry, "matching_deals", None)
    IN  IF all.t = "list" THEN all.v
        ELSE IF old.t = "list" THEN old.v
        ELSE <<>>

\* The matching deals taken as the entry stores them.
hit_matching_Stored(cached_entry, search_items) ==
    DictGet(cached_entry, "matching_deals", PyList(<<>>)).v

\* matching_deals of a run served from the cache (lines 460-475)
hit_matching(cached_entry, search_items) ==
    matching_cached(cached_deals_of(cached_entry), search_lowers(search_items))

\* A hit that writes the entry back with the time of the hit.
hit_file_Refreshed(file, key, cached_entry, clock) ==
    JsonFile(json_dump(PyDict(
        [k \in DOMAIN load_cache_data(file).v |->
            IF k = key
            THEN PyDict([f \in DOMAIN cached_entry.v |->
                            IF f = "timestamp" THEN PyFloat(clock)
                            ELSE cached_entry.v[f]])
            ELSE load_cache_data(file).v[k]])))

\* The cache file after a run served from the cache (lines 456-495): as it was.
hit_file(file, key, cached_entry, clock) == file

\* The payload of lines 540-547.
cache_payload(clock, search_items, store_number, all_deals, matching_deals) ==
    PyDict([timestamp |-> PyFloat(clock),
            search_items |-> PyList([i \in 1..Len(search_items) |-> PyStr(search_items[i])]),
            store_number |-> store_number,
            total_products |-> PyInt(Len(all_deals)),
            all_deals |-> PyList(all_deals),
            matching_deals |-> PyList(matching_deals)])

\* A live run that leaves the cache file alone.
live_file_Unwritten(file, key, payload) == file

\* The cache file after a live run with the cache enabled (lines 536-548).
live_file(file, key, payload) == write_cache_entry(file, key, payload)

(***************************************************************************)
(* Sample inputs and bounds                                                *)
(***************************************************************************)

MaxStrings == 3

TextMilk == <<"M","i","l","k">>
TextBuyGet == <<"B","u","y"," ","1"," ","G","e","t"," ","1">>
TextBuyGetSplit == <<"B","u","y"," ","2","\n","G","e","t"," ","1"," ","f","r","e","e">>
TextBuyGetWords == <<"b","u","y",","," ","g","e","t"," ","m","o","r","e">>
TextSave == <<"S","a","v","e"," ","$","2",".","0","0">>
TextSaveUpTo == <<"s","a","v","e"," ","u","p"," ","t","o"," ","$","1",".","5","0">>
TextSavers == <<"S","a","v","e","r","s">>
TextBogo == <<"B","O","G","O">>
TextPrice == <<"$","5",".","9","9">>
TextPadded == <<" ","\n">>

\* The strings a container's subtree may hold.
SampleStrings ==
    {TextMilk, TextBuyGet, TextBuyGetSplit, TextBuyGetWords, TextSave,
     TextSaveUpTo, TextSavers, TextBogo, TextPrice, TextPadded}

SampleContainers == UNION {[1..n -> SampleStrings] : n \in 1..MaxStrings}

\* The prices argument of categorize_deal.
SamplePrices == {<<>>, <<TextPrice>>, <<TextPrice, TextPrice>>}

MaxTime == 61

NameLay == <<"L","a","y","s">>
NameSoda == <<"S","o","d","a">>
TermLay == <<"l","a","y">>
TermLAY == <<"L","A","Y">>
TermSo == <<"s","o">>
TermPadded == <<" ","L","a","y"," ">>
StoreTwelve == <<"1","2">>

\* What find_deals returns for a page is a list of records of the extractor.
DealLay == extract_deal_info(<<NameLay, TextBogo>>)

DealSoda == extract_deal_info(<<NameSoda, TextSavers>>)

SampleDealLists == {<<>>, <<DealLay>>, <<DealSoda, DealLay>>}

\* --search-item as given on the command line
SampleSearches == {<<TermLAY>>, <<TermSo, TermPadded, TermLay>>}

\* --cache-ttl-minutes
SampleTtlMinutes == {1, 2}

SampleStores == {None, PyStr(StoreTwelve)}

CacheKeys == {build_cache_key(st) : st \in SampleStores}

\* The seconds that pass between two readings of the clock.
Delays == {MinTtlSeconds, MinTtlSeconds + 1}

\* The seconds a scrape may take.
ScrapeSeconds == {0, MinTtlSeconds}

NoRun == [kind |-> "none"]

NoWrites == [k \in CacheKeys |-> <<>>]

\* A cache file left by something else than this version of the program.
ForeignFiles ==
    {NoFile, BadFile, JsonFile(JArray(<<>>)),
     JsonFile(JObject([k \in {build_cache_key(None)} |-> JString(TextMilk)]))}

(***************************************************************************)
(* The classifier and the extractor applied to container texts             *)
(***************************************************************************)

InitText ==
    /\ container \in SampleContainers
    /\ extracted = <<>>
    /\ categorized = <<>>
    /\ cacheFile = NoFile
    /\ now = 0
    /\ readCall = <<>>
    /\ lastRun = NoRun
    /\ writes = NoWrites
    /\ soup = <<>>
    /\ found = <<>>

\* extract_deal_info(container); extracted holds what it returned.
ExtractDealInfo ==
    /\ extracted = <<>>
    /\ extracted' = <<extract_deal_info(container)>>
    /\ UNCHANGED <<container, categorized>>
    /\ UNCHANGED <<cacheVars, pageVars>>

\* categorize_deal(text, prices); categorized holds the call and its result.
CategorizeDeal ==
    /\ categorized = <<>>
    /\ \E prices \in SamplePrices \cup {FindPrices(get_text(container))} :
          categorized' = <<[text |-> get_text(container),
                            prices |-> prices,
                            deal_type |-> categorize_deal(get_text(container), prices)]>>
    /\ UNCHANGED <<container, extracted>>
    /\ UNCHANGED <<cacheVars, pageVars>>

NextText == ExtractDealInfo \/ CategorizeDeal

SpecText == InitText /\ [][NextText]_vars

\* The lines of a text as extract_deal_info takes them (line 97).
LinesOf(text) == StrippedNonEmpty(SplitLines(text))

HasBuyAndGet(line) ==
    /\ Contains(Lower(line), <<"b","u","y">>)
    /\ Contains(Lower(line), <<"g","e","t">>)

HasSave(line) == Contains(Lower(line), <<"s","a","v","e">>)

\* No BOGO signal, no "save" phrase, no line with both "buy" and "get", and
\* at most one price token.
NoSignal(text) ==
    /\ ~detect_bogo(text)
    /\ ~HasSave(text)
    /\ \A i \in 1..Len(LinesOf(text)) : ~HasBuyAndGet(LinesOf(text)[i])
    /\ Len(FindPrices(text)) <= 1

\* C1: extract_deal_info returns a record only when the container text has a
\* qualifying signal (is_bogo, a savings amount, a deal description, or more
\* than one price token), and returns None for every container text that
\* has no BOGO signal, no "save", no buy/get line and at most one price.
Thm_C1 ==
    \A k \in 1..Len(extracted) :
        LET r == extracted[k]
            text == get_text(container)
        IN  /\ r # None =>
                  \/ r.v.is_bogo = PyBool(TRUE)
                  \/ r.v.savings # None
                  \/ r.v.deal_description # None
                  \/ Len(FindPrices(text)) > 1
            /\ NoSignal(text) => r = None

\* A container of five characters or more with one price and no signal, for
\* which the extractor has returned None.
Wit_C1 ==
    /\ Len(extracted) = 1
    /\ extracted[1] = None
    /\ NoSignal(get_text(container))
    /\ Len(FindPrices(get_text(container))) = 1
    /\ Len(get_text(container)) >= MinTextLen

\* C6: categorize_deal is BOGO whenever detect_bogo holds, else Discount
\* whenever the text contains "save", else Price Drop whenever there is more
\* than one price, else Deal; a text with a BOGO phrase and "save" is BOGO.
Thm_C6 ==
    \A k \in 1..Len(categorized) :
        LET c == categorized[k]
            bogo == detect_bogo(c.text)
            save == HasSave(c.text)
        IN  /\ bogo => c.deal_type = TypeBOGO
            /\ ~bogo /\ save => c.deal_type = TypeDiscount
            /\ ~bogo /\ ~save /\ Len(c.prices) > 1 => c.deal_type = TypePriceDrop
            /\ ~bogo /\ ~save /\ Len(c.prices) <= 1 => c.deal_type = TypeDeal

\* A text with both a BOGO phrase and "save" has been categorized BOGO.
Wit_C6 ==
    /\ Len(categorized) = 1
    /\ detect_bogo(categorized[1].text)
    /\ HasSave(categorized[1].text)
    /\ categorized[1].deal_type = TypeBOGO

\* C7 as stated: deal_description is the first line with both "buy" and
\* "get" whenever such a line exists, the first "save" line only when none
\* does, and absent only when there is neither.
Cex_C7 ==
    \A k \in 1..Len(extracted) :
        extracted[k] # None =>
            LET lines == LinesOf(extracted[k].v.full_text.v)
                both == {i \in 1..Len(lines) : HasBuyAndGet(lines[i])}
                save == {i \in 1..Len(lines) : HasSave(lines[i])}
                First(S) == CHOOSE i \in S : \A j \in S : i <= j
            IN  extracted[k].v.deal_description =
                    IF both # {} THEN PyStr(lines[First(both)])
                    ELSE IF save # {} THEN PyStr(lines[First(save)])
                    ELSE None

\* C7, amended: deal_description is the first line, in line order, that
\* contains both "buy" and "get" or contains "save", whichever kind it is;
\* it is absent only when no line is of either kind.
Thm_C7 ==
    \A k \in 1..Len(extracted) :
        extracted[k] # None =>
            LET lines == LinesOf(extracted[k].v.full_text.v)
                d == extracted[k].v.deal_description
                Kind(l) == HasBuyAndGet(l) \/ HasSave(l)
            IN  /\ d = None => \A i \in 1..Len(lines) : ~Kind(lines[i])
                /\ d # None =>
                      \E i \in 1..Len(lines) :
                          /\ d = PyStr(lines[i])
                          /\ Kind(lines[i])
                          /\ \A j \in 1..(i - 1) : ~Kind(lines[j])

\* A record whose description is a "save" line standing before a line with
\* both "buy" and "get".
Wit_C7 ==
    /\ Len(extracted) = 1
    /\ extracted[1] # None
    /\ LET lines == LinesOf(extracted[1].v.full_text.v)
       IN  \E i, j \in 1..Len(lines) :
               /\ i < j
               /\ HasSave(lines[i]) /\ ~HasBuyAndGet(lines[i])
               /\ HasBuyAndGet(lines[j])
               /\ extracted[1].v.deal_description = PyStr(lines[i])

(***************************************************************************)
(* Runs of the scraper over a cache file                                   *)
(***************************************************************************)

InitRuns ==
    /\ container = <<>>
    /\ extracted = <<>>
    /\ categorized = <<>>
    /\ cacheFile \in ForeignFiles
    /\ now = 0
    /\ readCall = <<>>
    /\ lastRun = NoRun
    /\ writes = NoWrites
    /\ soup = <<>>
    /\ found = <<>>

\* Time passes between runs.
Elapse ==
    /\ \E d \in Delays : now + d <= MaxTime /\ now' = now + d
    /\ UNCHANGED <<cacheFile, readCall, lastRun, writes>>
    /\ UNCHANGED <<textVars, pageVars>>

\* What read_cache_entry gives the run (lines 456-457); None with the cache
\* disabled.
CachedEntry(store_number, cache_enabled, ttl) ==
    IF cache_enabled
    THEN read_cache_entry(cacheFile, build_cache_key(store_number), ttl, now)
    ELSE None

\* The run finds no fresh entry, for some --cache-ttl-minutes.
MissesCache(store_number, cache_enabled) ==
    ~ \A m \in SampleTtlMinutes :
          CachedEntry(store_number, cache_enabled, cache_ttl_seconds(m)) # None

\* run_scraper, served from the cache (lines 456-495).
RunFromCache(store_number, ttl) ==
    LET key == build_cache_key(store_number)
        cached_entry == CachedEntry(store_number, TRUE, ttl)
        cached_ts == DictGet(cached_entry, "timestamp", None)
        cached_deals == cached_deals_of(cached_entry)
        total_products == DictGet(cached_entry, "total_products", PyInt(Len(cached_deals)))
    IN  /\ cached_entry.t = "dict"
        /\ \E raw_search \in SampleSearches :
               lastRun' = [kind |-> "hit",
                           key |-> key,
                           search_items |-> normalize_search_items(raw_search),
                           cache_enabled |-> TRUE,
                           ttl |-> ttl,
                           time |-> now,
                           all_deals |-> cached_deals,
                           total_products |-> NumberOf(total_products),
                           matching_deals |->
                               hit_matching(cached_entry, normalize_search_items(raw_search)),
                           cached_timestamp |-> cached_ts]
        /\ cacheFile' = hit_file(cacheFile, key, cached_entry, now)
        /\ UNCHANGED <<now, readCall, writes>>
        /\ UNCHANGED <<textVars, pageVars>>

\* run_scraper, read_cache_entry raising (line 457, outside the try).
RunCrashes(store_number, ttl) ==
    /\ CachedEntry(store_number, TRUE, ttl).t = "raise"
    /\ lastRun' = [kind |-> "crash",
                   key |-> build_cache_key(store_number),
                   raised |-> CachedEntry(store_number, TRUE, ttl).v]
    /\ UNCHANGED <<cacheFile, now, readCall, writes>>
    /\ UNCHANGED <<textVars, pageVars>>

\* What a live run reports and leaves (lines 524-548), the scrape having
\* returned all_deals after d seconds.
LiveRun(raw_search, store_number, cache_enabled, all_deals, d) ==
    LET search_items == normalize_search_items(raw_search)
        key == build_cache_key(store_number)
        matching_deals == matching_live(all_deals, search_lowers(search_items))
        payload == cache_payload(now + d, search_items, store_number,
                                 all_deals, matching_deals)
    IN  /\ now' = now + d
        /\ lastRun' = [kind |-> "live",
                       key |-> key,
                       search_items |-> search_items,
                       cache_enabled |-> cache_enabled,
                       time |-> now + d,
                       all_deals |-> all_deals,
                       total_products |-> Len(all_deals),
                       matching_deals |-> matching_deals,
                       cached_timestamp |-> None]
        /\ IF cache_enabled
           THEN /\ cacheFile' = live_file(cacheFile, key, payload)
                /\ writes' = [writes EXCEPT ![key] =
                                 <<[time |-> now + d,
                                    all_deals |-> all_deals,
                                    replaced |-> key \in DOMAIN load_cache_data(cacheFile).v]>>]
           ELSE UNCHANGED <<cacheFile, writes>>

\* run_scraper, scraping the page (lines 497-558).
RunLive(store_number, cache_enabled) ==
    /\ MissesCache(store_number, cache_enabled)
    /\ \E raw_search \in SampleSearches, all_deals \in SampleDealLists, d \in ScrapeSeconds :
           /\ now + d <= MaxTime
           /\ LiveRun(raw_search, store_number, cache_enabled, all_deals, d)
    /\ UNCHANGED readCall
    /\ UNCHANGED <<textVars, pageVars>>

\* run_scraper, the page retrieval raising inside the try (lines 507-554):
\* nothing is reported and nothing is written.
RunLiveFails(store_number, cache_enabled) ==
    /\ MissesCache(store_number, cache_enabled)
    /\ lastRun' = [kind |-> "error", key |-> build_cache_key(store_number)]
    /\ UNCHANGED <<cacheFile, now, readCall, writes>>
    /\ UNCHANGED <<textVars, pageVars>>

NextRuns ==
    \/ Elapse
    \/ \E st \in SampleStores, m \in SampleTtlMinutes :
           RunFromCache(st, cache_ttl_seconds(m))
    \/ \E st \in SampleStores, m \in SampleTtlMinutes :
           RunCrashes(st, cache_ttl_seconds(m))
    \/ \E st \in SampleStores, en \in BOOLEAN : RunLive(st, en)
    \/ \E st \in SampleStores, en \in BOOLEAN : RunLiveFails(st, en)

SpecRuns == InitRuns /\ [][NextRuns]_vars

\* The entry the cache file holds for a key, None if none.
EntryOf(key) == DictGet(load_cache_data(cacheFile), key, None)

\* C3: after any writes, a read of key k with a ttl that covers the time
\* since the last write to k returns an entry whose all_deals is that of
\* that write, whatever was written to k before and to other keys since.
Thm_C3 ==
    \A k \in CacheKeys :
        writes[k] # <<>> =>
            \A ttl \in {cache_ttl_seconds(m) : m \in SampleTtlMinutes}
                       \cup {now - writes[k][1].time} :
                now - writes[k][1].time <= ttl =>
                    LET e == read_cache_entry(cacheFile, k, ttl, now)
                    IN  /\ e.t = "dict"
                        /\ DictGet(e, "all_deals", None) = PyList(writes[k][1].all_deals)

\* Key k was written, another key was written later, time has passed since
\* the write to k, and k is read back within its ttl.
Wit_C3 ==
    \E k, other \in CacheKeys :
        /\ k # other
        /\ writes[k] # <<>> /\ writes[other] # <<>>
        /\ writes[other][1].time > writes[k][1].time
        /\ now > writes[k][1].time
        /\ read_cache_entry(cacheFile, k, now - writes[k][1].time, now).t = "dict"

\* C4: a run served from the cache reports the deals a live run with the same
\* search terms would report over the product list of the scrape that wrote
\* the entry, in the same order.
Thm_C4 ==
    lastRun.kind = "hit" =>
        /\ writes[lastRun.key] # <<>>
        /\ lastRun.matching_deals =
               matching_live(writes[lastRun.key][1].all_deals,
                             search_lowers(lastRun.search_items))

\* A run served from an entry that another query wrote, reporting other
\* deals than the entry's matching_deals.
Wit_C4 ==
    /\ lastRun.kind = "hit"
    /\ EntryOf(lastRun.key).v.search_items #
           PyList([i \in 1..Len(lastRun.search_items) |-> PyStr(lastRun.search_items[i])])
    /\ EntryOf(lastRun.key).v.matching_deals # PyList(lastRun.matching_deals)
    /\ Len(lastRun.matching_deals) > 0

\* C5: after a live run with the cache enabled the entry of its store key
\* holds that run's timestamp and all_deals; and the file keeps, for every
\* key, the entry of the last live run for it: no other step removes or
\* changes an entry.
Thm_C5 ==
    /\ (lastRun.kind = "live" /\ lastRun.cache_enabled) =>
           /\ EntryOf(lastRun.key).t = "dict"
           /\ EntryOf(lastRun.key).v.timestamp = PyFloat(lastRun.time)
           /\ EntryOf(lastRun.key).v.all_deals = PyList(lastRun.all_deals)
    /\ \A k \in CacheKeys :
           writes[k] # <<>> =>
               /\ EntryOf(k).t = "dict"
               /\ EntryOf(k).v.timestamp = PyFloat(writes[k][1].time)
               /\ EntryOf(k).v.all_deals = PyList(writes[k][1].all_deals)

\* A live run has written over the stale entry of its key, and the entry of
\* another key, older than the shortest ttl, is still in the file.
Wit_C5 ==
    /\ lastRun.kind = "live"
    /\ lastRun.cache_enabled
    /\ writes[lastRun.key][1].replaced
    /\ \E k \in CacheKeys \ {lastRun.key} :
           /\ EntryOf(k).t = "dict"
           /\ now - NumberOf(EntryOf(k).v.timestamp) > MinTtlSeconds

\* s.upper()
Upper(s) ==
    [i \in 1..Len(s) |->
        IF \E j \in 1..Len(LowerCase) : LowerCase[j] = s[i]
        THEN UpperCase[CHOOSE j \in 1..Len(LowerCase) : LowerCase[j] = s[i]]
        ELSE s[i]]

\* The same search terms in reverse order, in capitals and in small letters.
Variants(terms) ==
    {[i \in 1..Len(terms) |-> terms[Len(terms) + 1 - i]],
     [i \in 1..Len(terms) |-> Upper(terms[i])],
     [i \in 1..Len(terms) |-> Lower(terms[i])]}

\* C8: the deals a run reports are the products whose lowercased name
\* contains a lowercased search term, in the order of the product list; the
\* terms in another order or in another letter case give the same deals.
Thm_C8 ==
    lastRun.kind \in {"hit", "live"} =>
        LET Kept(d) ==
                \E i \in 1..Len(lastRun.search_items) :
                    Contains(Lower(d.v.product_name.v), Lower(lastRun.search_items[i]))
        IN  /\ lastRun.matching_deals = SelectSeq(lastRun.all_deals, Kept)
            /\ \A terms \in Variants(lastRun.search_items) :
                   /\ lastRun.kind = "live" =>
                          matching_live(lastRun.all_deals, search_lowers(terms))
                              = lastRun.matching_deals
                   /\ lastRun.kind = "hit" =>
                          matching_cached(lastRun.all_deals, search_lowers(terms))
                              = lastRun.matching_deals

\* A run with a term in capitals that kept one product of two.
Wit_C8 ==
    /\ lastRun.kind \in {"hit", "live"}
    /\ Len(lastRun.all_deals) = 2
    /\ Len(lastRun.matching_deals) = 1
    /\ \E i \in 1..Len(lastRun.search_items) :
           lastRun.search_items[i] # Lower(lastRun.search_items[i])

\* C10: a run served from the cache leaves the cache file as it was, and
\* what it serves is the entry of the last live scrape for its key, written
\* at most ttl seconds before the run.
Thm_C10 ==
    [][lastRun'.kind = "hit" =>
          /\ cacheFile' = cacheFile
          /\ writes'[lastRun'.key] # <<>>
          /\ lastRun'.cached_timestamp = PyFloat(writes'[lastRun'.key][1].time)
          /\ lastRun'.time - writes'[lastRun'.key][1].time <= lastRun'.ttl]_vars

\* A run served from the cache exactly ttl seconds after the live scrape.
Wit_C10 ==
    /\ lastRun.kind = "hit"
    /\ lastRun.time - NumberOf(lastRun.cached_timestamp) = lastRun.ttl

(***************************************************************************)
(* read_cache_entry over cache files of any content                        *)
(***************************************************************************)

\* The clock at the read.
ReadClock == 3700

\* ttl_seconds of the read
SampleTtlSeconds == {0, MinTtlSeconds, 3600}

\* Timestamps an entry may carry: numbers on both sides of every sampled ttl,
\* and values that are no number.
SampleTimestamps ==
    <<JNumber(ReadClock - 3700, TRUE), JNumber(ReadClock - 3600, TRUE),
      JNumber(ReadClock - 1, TRUE), JNumber(ReadClock, TRUE),
      JNumber(ReadClock - 3601, FALSE), JNumber(ReadClock - MinTtlSeconds, FALSE),
      JNull, JString(TextMilk), JTrue, JFalse>>

\* What a cache file may hold under a key: entries with a timestamp of any
\* kind or none, and values that are no entry.
SampleEntries ==
    [i \in 1..Len(SampleTimestamps) |->
        JObject([f \in {"timestamp", "all_deals"} |->
                    IF f = "timestamp" THEN SampleTimestamps[i] ELSE JArray(<<>>)])]
    \o <<JObject([f \in {"all_deals"} |-> JArray(<<>>)]),
         JObject([f \in {} |-> JNull]),
         JNull, JFalse, JTrue, JNumber(0, FALSE), JNumber(5, FALSE),
         JString(<<>>), JString(TextMilk), JArray(<<>>), JArray(<<JNull>>)>>

SampleCacheFiles ==
    <<NoFile, BadFile, JsonFile(JArray(<<>>)), JsonFile(JObject([k \in {} |-> JNull]))>>
    \o [i \in 1..Len(SampleEntries) |->
           JsonFile(JObject([k \in {build_cache_key(None)} |-> SampleEntries[i]]))]

InitRead ==
    /\ container = <<>>
    /\ extracted = <<>>
    /\ categorized = <<>>
    /\ \E i \in 1..Len(SampleCacheFiles) : cacheFile = SampleCacheFiles[i]
    /\ now = ReadClock
    /\ readCall = <<>>
    /\ lastRun = NoRun
    /\ writes = NoWrites
    /\ soup = <<>>
    /\ found = <<>>

\* read_cache_entry(cache_path, key, ttl_seconds); readCall holds the call and
\* what it returned or raised.
ReadCacheEntry ==
    /\ readCall = <<>>
    /\ \E key \in CacheKeys, ttl \in SampleTtlSeconds :
           readCall' = <<[key |-> key,
                          ttl |-> ttl,
                          result |-> read_cache_entry(cacheFile, key, ttl, now)]>>
    /\ UNCHANGED <<cacheFile, now, lastRun, writes>>
    /\ UNCHANGED <<textVars, pageVars>>

NextRead == ReadCacheEntry

SpecRead == InitRead /\ [][NextRead]_vars

\* The cache file holds a value for the key.
HasEntry(file, key) ==
    /\ file.f = "json"
    /\ file.doc.j = "object"
    /\ key \in DOMAIN file.doc.v

\* The value has a timestamp, and it is a number.
HasNumericTimestamp(entry) ==
    /\ entry.j = "object"
    /\ "timestamp" \in DOMAIN entry.v
    /\ entry.v["timestamp"].j = "number"

\* C2: read_cache_entry returns None exactly when the cache has no entry for
\* the key, or the entry's timestamp is missing or not a number, or
\* now - timestamp > ttl; in every other case it returns the stored entry.
Cex_C2 ==
    \A k \in 1..Len(readCall) :
        LET c == readCall[k]
            absent ==
                \/ ~HasEntry(cacheFile, c.key)
                \/ ~HasNumericTimestamp(cacheFile.doc.v[c.key])
                \/ now - cacheFile.doc.v[c.key].v["timestamp"].v > c.ttl
        IN  IF absent THEN c.result = None
            ELSE c.result = json_load(cacheFile.doc.v[c.key])

(***************************************************************************)
(* Container locator: find_deals                                           *)
(*                                                                         *)
(* soup is the sequence of the page's nodes in document order.  A node is  *)
(* its index: two nodes are the same object exactly when their indices are *)
(* equal.  Every node records its parent, Document for a child of the      *)
(* BeautifulSoup object itself.                                            *)
(***************************************************************************)

Document == 0

NoNode == -1

Tag(parent, name, attrs) ==
    [kind |-> "Tag", parent |-> parent, name |-> name, attrs |-> attrs]

NavigableString(parent, text) ==
    [kind |-> "NavigableString", parent |-> parent, text |-> text]

\* for _ in range(10)
WalkLimit == 10

keywords ==
    <<<<"p","r","o","d","u","c","t">>, <<"i","t","e","m">>, <<"c","a","r","d">>,
      <<"d","e","a","l">>, <<"t","i","l","e">>>>

RECURSIVE JoinSpaces(_)
\* " ".join(parts)
JoinSpaces(parts) ==
    IF Len(parts) = 0 THEN <<>>
    ELSE IF Len(parts) = 1 THEN parts[1]
    ELSE parts[1] \o <<" ">> \o JoinSpaces(Tail(parts))

\* tag.get(name, default)
TagGet(tag, name, default) ==
    IF name \in DOMAIN tag.attrs THEN tag.attrs[name] ELSE default

\* The test of lines 162-175 on one ancestor: a div whose class string holds
\* a keyword, or that has a non-empty data-testid or data-product-id.
Qualifies(tag) ==
    /\ tag.name = "div"
    /\ LET classes == TagGet(tag, "class", <<>>)
           class_str == Lower(JoinSpaces(classes))
       IN  \/ \E k \in 1..Len(keywords) : Contains(class_str, keywords[k])
           \/ Len(TagGet(tag, "data-testid", <<>>)) > 0
           \/ Len(TagGet(tag, "data-product-id", <<>>)) > 0

RECURSIVE walk_up(_, _, _)
\* The loop of lines 161-177 started at parent with steps iterations left:
\* the node it adds, NoNode when it ends without adding one.
walk_up(nodes, parent, steps) ==
    IF steps = 0 \/ parent = NoNode THEN NoNode
    ELSE IF parent = Document THEN walk_up(nodes, NoNode, steps - 1)
    ELSE IF Qualifies(nodes[parent]) THEN parent
    ELSE walk_up(nodes, nodes[parent].parent, steps - 1)

\* soup.find_all(string=re.compile(r"\$\d+\.\d{2}")), as the set of the
\* matching strings; they are visited in document order.
price_elements(nodes) ==
    {n \in 1..Len(nodes) :
        nodes[n].kind = "NavigableString" /\ HasPrice(nodes[n].text)}

RECURSIVE Ascending(_)
\* The members of a set of nodes in document order.
Ascending(S) ==
    IF S = {} THEN <<>>
    ELSE LET first == CHOOSE n \in S : \A m \in S : n <= m
         IN  <<first>> \o Ascending(S \ {first})

\* tag.contents
Contents(nodes, n) == Ascending({c \in 1..Len(nodes) : nodes[c].parent = n})

RECURSIVE Markup(_, _)
\* What Tag.__eq__ and Tag.__hash__ of bs4 look at: the name, the attributes
\* and, recursively, the contents; a string is its text.
Markup(nodes, n) ==
    IF nodes[n].kind = "NavigableString" THEN [text |-> nodes[n].text]
    ELSE LET contents == Contents(nodes, n)
         IN  [name |-> nodes[n].name,
              attrs |-> nodes[n].attrs,
              contents |-> [i \in 1..Len(contents) |-> Markup(nodes, contents[i])]]

\* a == b for two tags
TagEq(nodes, a, b) == a = b \/ Markup(nodes, a) = Markup(nodes, b)

\* set.add(parent): a set keeps one of any two members that are == .
SetAdd(nodes, set, parent) ==
    IF \E member \in set : TagEq(nodes, member, parent) THEN set
    ELSE set \cup {parent}

RECURSIVE add_containers(_, _, _)
\* The loop of lines 159-177 over the price elements still to visit.
add_containers(nodes, elements, set) ==
    IF Len(elements) = 0 THEN set
    ELSE LET parent == walk_up(nodes, nodes[elements[1]].parent, WalkLimit)
         IN  add_containers(nodes, Tail(elements),
                            IF parent = NoNode THEN set
                            ELSE SetAdd(nodes, set, parent))

product_containers(nodes) ==
    add_containers(nodes, Ascending(price_elements(nodes)), {})

RECURSIVE IsInside(_, _, _)
\* n is a descendant of tag
IsInside(nodes, n, tag) ==
    IF nodes[n].parent = Document THEN FALSE
    ELSE nodes[n].parent = tag \/ IsInside(nodes, nodes[n].parent, tag)

\* The strings of a tag's subtree in document order, which is what get_text
\* of line 92 joins.
StringsOf(nodes, tag) ==
    LET inside == Ascending({n \in 1..Len(nodes) :
                                nodes[n].kind = "NavigableString"
                                /\ IsInside(nodes, n, tag)})
    IN  [i \in 1..Len(inside) |-> nodes[inside[i]].text]

RECURSIVE extract_deals(_, _)
\* The loop of lines 180-183 over the containers in the order the set
\* yields them.
extract_deals(nodes, containers) ==
    IF Len(containers) = 0 THEN <<>>
    ELSE LET deal == extract_deal_info(StringsOf(nodes, containers[1]))
         IN  (IF Truthy(deal) THEN <<deal>> ELSE <<>>)
             \o extract_deals(nodes, Tail(containers))

\* The orders in which iteration may yield a set's members.
IterationOrders(S) ==
    {order \in [1..Cardinality(S) -> S] :
        \A i, j \in 1..Cardinality(S) : i # j => order[i] # order[j]}

(***************************************************************************)
(* Sample pages                                                            *)
(***************************************************************************)

NoAttrs == [a \in {} |-> <<>>]

PlainDiv == [name |-> "div", attrs |-> NoAttrs]

CardDiv ==
    [name |-> "div",
     attrs |-> [a \in {"class"} |->
                   <<<<"g","r","i","d">>, <<"P","r","o","d","u","c","t","-","C","a","r","d">>>>]]

SplitClassDiv ==
    [name |-> "div", attrs |-> [a \in {"class"} |-> <<<<"t","i">>, <<"l","e">>>>]]

ItemSpan ==
    [name |-> "span", attrs |-> [a \in {"class"} |-> <<<<"i","t","e","m","s">>>>]]

TestIdDiv ==
    [name |-> "div", attrs |-> [a \in {"data-testid"} |-> <<"p","1">>]]

EmptyTestIdDiv ==
    [name |-> "div", attrs |-> [a \in {"data-testid"} |-> <<>>]]

ProductIdDiv ==
    [name |-> "div", attrs |-> [a \in {"data-product-id"} |-> <<"7">>]]

SampleElements ==
    {PlainDiv, CardDiv, SplitClassDiv, ItemSpan, TestIdDiv, EmptyTestIdDiv, ProductIdDiv}

\* Plain divs between the outer and the inner element of a card: with the
\* most, the outer element is one step beyond the walk.
SampleGaps == {0, WalkLimit - 2, WalkLimit - 1}

SampleCardStrings ==
    {<<TextPrice>>, <<NameLay, TextBogo, TextPrice>>, <<TextPrice, TextSave, TextPrice>>,
     <<NameSoda, TextSave>>}

\* A card is a chain of elements, outermost first, the last holding the strings.
SampleCards ==
    {[chain |-> <<outer>> \o [i \in 1..gap |-> PlainDiv] \o <<inner>>,
      strings |-> strings] :
        outer \in SampleElements, gap \in SampleGaps, inner \in SampleElements,
        strings \in SampleCardStrings}

\* A page shows a card up to this many times.
MaxCopies == 2

\* The nodes of one card, the first of them at index offset + 1.
CardNodes(card, offset) ==
    LET depth == Len(card.chain)
    IN  [i \in 1..depth |->
            Tag(IF i = 1 THEN Document ELSE offset + i - 1,
                card.chain[i].name, card.chain[i].attrs)]
        \o [j \in 1..Len(card.strings) |->
               NavigableString(offset + depth, card.strings[j])]

RECURSIVE PageNodes(_, _)
\* The nodes of a page that shows the cards one after the other.
PageNodes(cards, offset) ==
    IF Len(cards) = 0 THEN <<>>
    ELSE LET first == CardNodes(cards[1], offset)
         IN  first \o PageNodes(Tail(cards), offset + Len(first))

\* A card of another product, which a page may show last.
OtherCard == [chain |-> <<TestIdDiv>>, strings |-> <<NameSoda, TextSaveUpTo, TextPrice>>]

SamplePages ==
    {PageNodes([i \in 1..copies |-> card] \o rest, 0) :
        card \in SampleCards, copies \in 1..MaxCopies, rest \in {<<>>, <<OtherCard>>}}

InitLocator ==
    /\ container = <<>>
    /\ extracted = <<>>
    /\ categorized = <<>>
    /\ cacheFile = NoFile
    /\ now = 0
    /\ readCall = <<>>
    /\ lastRun = NoRun
    /\ writes = NoWrites
    /\ soup \in SamplePages
    /\ found = <<>>

\* find_deals(soup); found holds the container set and the returned deals.
FindDeals ==
    /\ found = <<>>
    /\ LET containers == product_containers(soup)
       IN  \E order \in IterationOrders(containers) :
               found' = <<[product_containers |-> containers,
                           deals |-> extract_deals(soup, order)]>>
    /\ UNCHANGED soup
    /\ UNCHANGED <<textVars, cacheVars>>

NextLocator == FindDeals

SpecLocator == InitLocator /\ [][NextLocator]_vars

\* The nearest qualifying ancestor of a price node within the walk.
NearestContainer(n) == walk_up(soup, soup[n].parent, WalkLimit)

\* C9: find_deals collects exactly the nodes that are, for some price text
\* node, the nearest qualifying ancestor within 10 steps; two nodes are the
\* same member only when they are the same node, whatever their content.
Cex_C9 ==
    \A k \in 1..Len(found) :
        found[k].product_containers =
            {NearestContainer(n) : n \in price_elements(soup)} \ {NoNode}

====
